---- MODULE Spec2Model ----
(***************************************************************************)
(* Model of ai-analyst-streamlit_app.py: one Streamlit script run per     *)
(* user interaction.  A run loads the uploaded file, reads the question   *)
(* and the run button, and, when both are set, asks the remote model for  *)
(* a pandas expression, filters and evaluates it, renders the result and  *)
(* asks the remote model for an explanation.                               *)
(*                                                                         *)
(* Texts (generated code, prompts, result strings) are TLA+ strings;      *)
(* Len, \o and SubSeq act on them character by character.                  *)
(***************************************************************************)
EXTENDS Integers, Sequences, FiniteSets, TLC

VARIABLES
    pc,             \* position of the script run
    runs,           \* number of script runs of the session so far
    uploaded_file,  \* value of the file_uploader widget
    df,             \* the loaded dataset (module-level binding, line 133)
    schema,         \* get_schema(df) (module-level binding, line 134)
    question,       \* value of the text_area widget
    run_btn,        \* value of the "Run Analysis" button
    prompt,         \* build_prompt(schema, question), line 160
    ai_code,        \* text returned by the first remote call, line 164
    result,         \* value returned by safe_execute, line 169
    explain_prompt, \* the prompt local to explain_result, lines 110-118
    exc,            \* the exception raised in this run, if any
    trace           \* events of this run, in order: remote calls, gate
                    \* decisions, evaluations and elements put on the page

vars == <<pc, runs, uploaded_file, df, schema, question, run_btn, prompt,
          ai_code, result, explain_prompt, exc, trace>>

-----------------------------------------------------------------------------
(* Bounds *)

\* script runs (reruns) of one session
MaxRuns == 2
\* fragments concatenated into a candidate text for the gate
MaxFrags == 3
\* longest result string handed to explain_result
MaxResultLen == 1003

-----------------------------------------------------------------------------
(* Text helpers: Python str operations *)

Min(a, b) == IF a <= b THEN a ELSE b

\* faulty variant of Contains: the test code.startswith(b)
Contains_AtStart(code, b) ==
    Len(b) <= Len(code) /\ SubSeq(code, 1, Len(b)) = b

\* b in code  (substring test of Python's `in` on str)
Contains(code, b) ==
    \E i \in 0..(Len(code) - Len(b)) : SubSeq(code, i + 1, i + Len(b)) = b

\* name.endswith(suffix)
EndsWith(name, suffix) ==
    /\ Len(suffix) <= Len(name)
    /\ SubSeq(name, Len(name) - Len(suffix) + 1, Len(name)) = suffix

Whitespace == {" ", "\n", "\t"}

RECURSIVE LStrip(_)
LStrip(s) ==
    IF Len(s) > 0 /\ SubSeq(s, 1, 1) \in Whitespace
    THEN LStrip(SubSeq(s, 2, Len(s)))
    ELSE s

RECURSIVE RStrip(_)
RStrip(s) ==
    IF Len(s) > 0 /\ SubSeq(s, Len(s), Len(s)) \in Whitespace
    THEN RStrip(SubSeq(s, 1, Len(s) - 1))
    ELSE s

\* text.strip()
Strip(s) == RStrip(LStrip(s))

\* faulty variant of SliceTo: the bound taken as an inclusive index
SliceTo_Inclusive(s, stop) == SubSeq(s, 1, Min(stop + 1, Len(s)))

\* s[:stop] for stop >= 0
SliceTo(s, stop) == SubSeq(s, 1, Min(stop, Len(s)))

RECURSIVE Join(_, _)
\* sep.join(parts)
Join(parts, sep) ==
    IF Len(parts) = 0 THEN ""
    ELSE IF Len(parts) = 1 THEN parts[1]
    ELSE parts[1] \o sep \o Join(Tail(parts), sep)

-----------------------------------------------------------------------------
(* Datasets: ordered columns, a type label per column, rows *)

NoTable == [columns |-> <<>>, dtypes |-> <<>>, rows |-> <<>>]

SalesTable ==
    [columns |-> <<"region", "revenue", "units">>,
     dtypes  |-> [region |-> "object", revenue |-> "int64", units |-> "int64"],
     rows    |-> << [region |-> "east",  revenue |-> 10, units |-> 1],
                    [region |-> "west",  revenue |-> 20, units |-> 2],
                    [region |-> "north", revenue |-> 30, units |-> 3] >>]

RegionTable ==
    [columns |-> <<"region", "revenue">>,
     dtypes  |-> [region |-> "object", revenue |-> "int64"],
     rows    |-> << [region |-> "east",  revenue |-> 5],
                    [region |-> "west",  revenue |-> 7],
                    [region |-> "east",  revenue |-> 1],
                    [region |-> "south", revenue |-> 2],
                    [region |-> "west",  revenue |-> 4],
                    [region |-> "north", revenue |-> 9] >>]

Range(s) == {s[i] : i \in 1..Len(s)}

HasColumn(d, c) == c \in Range(d.columns)

\* d[cols]: the table restricted to the listed columns, in the listed order
SelectColumns(d, cols) ==
    [columns |-> cols,
     dtypes  |-> [c \in Range(cols) |-> d.dtypes[c]],
     rows    |-> [i \in 1..Len(d.rows) |-> [c \in Range(cols) |-> d.rows[i][c]]]]

\* the table after the in-place removal of column c
DropColumn(d, c) ==
    SelectColumns(d, SelectSeq(d.columns, LAMBDA x : x # c))

RECURSIVE SumColumn(_, _)
\* d[c].sum() for an integer column
SumColumn(rows, c) ==
    IF Len(rows) = 0 THEN 0 ELSE rows[1][c] + SumColumn(Tail(rows), c)

-----------------------------------------------------------------------------
(* Uploaded files *)

NoFile == [name |-> "", format |-> "", table |-> NoTable, readable |-> FALSE]

Files ==
    { [name |-> "sales.csv",   format |-> "csv",  table |-> SalesTable,  readable |-> TRUE],
      [name |-> "regions.xlsx", format |-> "xlsx", table |-> RegionTable, readable |-> TRUE],
      [name |-> "broken.csv",  format |-> "csv",  table |-> NoTable,     readable |-> FALSE] }

\* load_file: the reader is chosen by the file name's suffix; a reader raises
\* on content it cannot parse
load_file(f) ==
    LET reader == IF EndsWith(f.name, ".csv") THEN "csv" ELSE "xlsx"
    IN  IF f.readable /\ reader = f.format
        THEN [ok |-> TRUE,  table |-> f.table]
        ELSE [ok |-> FALSE, table |-> NoTable]

\* df.head(5)
Head5(rows) == SubSeq(rows, 1, Min(5, Len(rows)))

get_schema(d) ==
    [columns     |-> d.columns,
     types       |-> d.dtypes,
     sample_rows |-> Head5(d.rows)]

NoSchema == get_schema(NoTable)

\* build_prompt: the fixed template with the three schema fields and the
\* question embedded, in this order
build_prompt(s, q) ==
    << "\nYou are a senior data analyst.\n\nDataframe schema:\nColumns: ",
       s.columns, "\nTypes: ", s.types, "\nSample rows: ", s.sample_rows,
       "\n\nUser question:\n\"", q,
       "\"\n\nRules:\n- Use pandas only\n- The dataframe variable is named df\n- Do NOT modify df\n- Do NOT import anything\n- Return ONLY a single pandas expression\n" >>

NoPrompt == <<>>

-----------------------------------------------------------------------------
(* Analysis results: a scalar, a single column, a table, or another object *)

NoResult == [kind |-> "none", table |-> NoTable, value |-> ""]

IntResult(n)       == [kind |-> "int",       table |-> NoTable, value |-> n]
StrResult(s)       == [kind |-> "str",       table |-> NoTable, value |-> s]
OtherResult(repr)  == [kind |-> "other",     table |-> NoTable, value |-> repr]
SeriesResult(d, c) == [kind |-> "Series",    table |-> SelectColumns(d, <<c>>), value |-> ""]
FrameResult(t)     == [kind |-> "DataFrame", table |-> t,       value |-> ""]

\* the text of one cell
Cell(t, i, c) ==
    IF t.dtypes[c] = "int64" THEN ToString(t.rows[i][c]) ELSE t.rows[i][c]

\* one printed line per row: the row label, then the cells
TableLines(t) ==
    [i \in 1..Len(t.rows) |->
        Join(<<ToString(i - 1)>> \o [k \in 1..Len(t.columns) |-> Cell(t, i, t.columns[k])], " ")]

\* str(result).  Tables are printed a line per row; the padding pandas adds
\* to align the cells of a column is left out.
Str(r) ==
    CASE r.kind = "int"    -> ToString(r.value)
      [] r.kind = "Series" ->
            Join(TableLines(r.table)
                 \o <<"Name: " \o r.table.columns[1] \o ", dtype: "
                      \o r.table.dtypes[r.table.columns[1]]>>, "\n")
      [] r.kind = "DataFrame" ->
            IF Len(r.table.columns) = 0
            THEN "Empty DataFrame\nColumns: []\nIndex: ["
                 \o Join([i \in 1..Len(r.table.rows) |-> ToString(i - 1)], ", ") \o "]"
            ELSE Join(<<Join(r.table.columns, " ")>> \o TableLines(r.table), "\n")
      [] OTHER -> r.value

-----------------------------------------------------------------------------
(* Remote invocation *)

\* raw texts of the first content segment the remote model may answer with
\* when asked for an expression
CodeResponses ==
    { "df['revenue'].sum()", " df['region'].sum()\n", "df['units'].sum()",
      "df['revenue']", "df['profit']",
      "  df\n", "df[['region', 'revenue']]", "df[['region']]", "df[[]]",
      "df.pop('revenue')", "exit()",
      "df.columns.__len__()", "import os", "df.eval('revenue * 2')",
      "getattr(df,'__c'+'lass__')", "getattr(df,'_'+'_class_'+'_')",
      "The total revenue is 60" }

\* raw texts the remote model may answer with when asked for an explanation
ExplanationResponses == { " Revenue adds up across all regions.\n" }

\* call_bedrock: the trimmed text of the first response segment, or an
\* exception on a transport, authentication or malformed-response error
call_bedrock(p, responses) ==
    { [ok |-> TRUE, text |-> Strip(raw)] : raw \in responses }
      \cup { [ok |-> FALSE, text |-> "ClientError"] }

-----------------------------------------------------------------------------
(* Expression evaluation *)

\* faulty variant of banned: a single underscore in place of the double one
banned_SingleUnderscore == <<"import", "os.", "open(", "exec", "eval", "_", "sys.">>

banned == <<"import", "os.", "open(", "exec", "eval", "__", "sys.">>

\* any(b in code for b in banned)
AnyBanned(code) == \E k \in 1..Len(banned) : Contains(code, banned[k])

\* the names bound by the globals dict handed to eval, line 94
EvalGlobals == {"df"}

Returns(r, d) == [kind |-> "value", result |-> r, type |-> "", base |-> FALSE, df |-> d]

\* base: the exception derives from BaseException but not from Exception
Raises(type, base, d) ==
    [kind |-> "raise", result |-> NoResult, type |-> type, base |-> base, df |-> d]

ColumnNames == {"region", "revenue", "units", "profit"}

\* an expression the model gives no meaning to may return, raise an
\* Exception, or raise a BaseException
UnknownOutcomes(d) ==
    { Returns(OtherResult("<object>"), d),
      Raises("Exception", FALSE, d),
      Raises("BaseException", TRUE, d) }

\* eval(code, {"df": d}): the possible outcomes, each with the dataset as the
\* evaluation leaves it
Eval(code, d) ==
    IF code = "df" THEN { Returns(FrameResult(d), d) }
    ELSE IF \E c \in ColumnNames : code = "df['" \o c \o "']" THEN
        LET c == CHOOSE x \in ColumnNames : code = "df['" \o x \o "']"
        IN  IF HasColumn(d, c) THEN { Returns(SeriesResult(d, c), d) }
            ELSE { Raises("KeyError", FALSE, d) }
    ELSE IF \E c \in ColumnNames : code = "df['" \o c \o "'].sum()" THEN
        LET c == CHOOSE x \in ColumnNames : code = "df['" \o x \o "'].sum()"
        IN  IF ~HasColumn(d, c) THEN { Raises("KeyError", FALSE, d) }
            ELSE IF d.dtypes[c] = "int64"
                 THEN { Returns(IntResult(SumColumn(d.rows, c)), d) }
                 ELSE { Returns(StrResult(Join([i \in 1..Len(d.rows) |-> d.rows[i][c]], "")), d) }
    ELSE IF code = "df[['region', 'revenue']]" THEN
        { Returns(FrameResult(SelectColumns(d, <<"region", "revenue">>)), d) }
    ELSE IF code = "df[['region']]" THEN
        { Returns(FrameResult(SelectColumns(d, <<"region">>)), d) }
    ELSE IF code = "df[[]]" THEN
        { Returns(FrameResult(SelectColumns(d, <<>>)), d) }
    ELSE IF code = "df.pop('revenue')" THEN
        { Returns(SeriesResult(d, "revenue"), DropColumn(d, "revenue")) }
    ELSE IF code = "exit()" THEN
        { Raises("SystemExit", TRUE, d) }
    ELSE IF code = "getattr(df,'_'+'_class_'+'_')" THEN
        { Returns(OtherResult("<class 'pandas.core.frame.DataFrame'>"), d) }
    ELSE IF code = "The total revenue is 60" THEN
        { Raises("SyntaxError", FALSE, d) }
    ELSE UnknownOutcomes(d)

\* safe_execute: the outcomes, each telling whether eval was reached
safe_execute(code, d) ==
    IF AnyBanned(code)
    THEN { [out |-> Raises("ValueError: Unsafe code detected", FALSE, d),
            evaluated |-> FALSE, globals |-> {}] }
    ELSE { [out |-> o, evaluated |-> TRUE, globals |-> EvalGlobals] : o \in Eval(code, d) }

-----------------------------------------------------------------------------
(* Result rendering and explanation *)

\* faulty variant of auto_visualize: `>= 2` in place of `== 2`
auto_visualize_AtLeastTwo(r) ==
    IF r.kind = "Series"
    THEN [widget |-> "bar_chart", index |-> "", data |-> r.table]
    ELSE IF r.kind = "DataFrame"
         THEN IF Len(r.table.columns) >= 2
              THEN [widget |-> "bar_chart", index |-> r.table.columns[1], data |-> r.table]
              ELSE [widget |-> "dataframe", index |-> "", data |-> r.table]
         ELSE [widget |-> "write", index |-> "", data |-> r.table]

\* auto_visualize: the element put on the page
auto_visualize(r) ==
    IF r.kind = "Series"
    THEN [widget |-> "bar_chart", index |-> "", data |-> r.table]
    ELSE IF r.kind = "DataFrame"
         THEN IF Len(r.table.columns) = 2
              THEN [widget |-> "bar_chart", index |-> r.table.columns[1], data |-> r.table]
              ELSE [widget |-> "dataframe", index |-> "", data |-> r.table]
         ELSE [widget |-> "write", index |-> "", data |-> r.table]

ExplainHead ==
    "\nExplain the following analysis result in simple business language.\n\nQuestion:\n"
ExplainMid  == "\n\nResult:\n"
ExplainTail == "\n"

\* the slice bound of str(result)[:1000]
ResultLimit == 1000

\* the prompt explain_result builds
ExplainPrompt(q, r) ==
    ExplainHead \o q \o ExplainMid \o SliceTo(Str(r), ResultLimit) \o ExplainTail

-----------------------------------------------------------------------------
(* Events of a script run *)

Event(ev, what, data) == [ev |-> ev, what |-> what, data |-> data]

\* an element put on the page by the st.<what> call
Show(what, data) == Event("show", what, data)

\* an invocation of call_bedrock
Call(what, p) == Event("call", what, p)

NoExc == [step |-> "none", type |-> "", base |-> FALSE]

Raised(step, type, base) == [step |-> step, type |-> type, base |-> base]

\* lines 15-16
HeaderEvents ==
    << Show("title", "AI Data Analyst (NL -> Insights)"),
       Show("caption", "Powered by AWS Bedrock") >>

\* lines 141-151
LayoutEvents(d) ==
    << Show("subheader", "Dataset Preview"), Show("dataframe", d),
       Show("subheader", "AI Assistant") >>

\* lines 157-158
AnalysisEvents == << Show("divider", ""), Show("subheader", "Analysis") >>

\* lines 171-175
ResultEvents(r) ==
    << Show("success", "Analysis completed!"), Show("write", "### Result"),
       Show("result", r), Show("write", "### Visualization") >>

\* faulty variant of Handler: a fallback explanation is requested first
Handler_Fallback(tr, type) ==
    tr \o << Call("explain", ""), Show("error", "Something went wrong."),
             Show("text", type) >>

\* faulty variant of Handler: the message names the failure
Handler_Differentiated(tr, type) ==
    tr \o << Show("error", type), Show("text", type) >>

\* faulty variant of Handler: the page is cleared before the message
Handler_Clear(tr, type) ==
    << Show("error", "Something went wrong."), Show("text", type) >>

\* the except block, lines 182-184: the page keeps what was put on it and
\* gets the generic message and the traceback text
Handler(tr, type) ==
    tr \o << Show("error", "Something went wrong."), Show("text", type) >>

-----------------------------------------------------------------------------
(* The script run *)

Questions == {"", "what is the total of column revenue"}

Uploads == {NoFile} \cup Files

Init ==
    /\ pc = "upload"
    /\ runs = 1
    /\ uploaded_file \in Uploads
    /\ df = NoTable
    /\ schema = NoSchema
    /\ question = ""
    /\ run_btn = FALSE
    /\ prompt = NoPrompt
    /\ ai_code = ""
    /\ result = NoResult
    /\ explain_prompt = ""
    /\ exc = NoExc
    /\ trace = <<>>

\* lines 15-16, 124-134: without a file the script stops; otherwise the
\* file is loaded (a load error is raised outside any handler)
UploadGuard ==
    /\ pc = "upload"
    /\ IF uploaded_file = NoFile
       THEN /\ trace' = HeaderEvents \o <<Show("info", "Upload a dataset to begin.")>>
            /\ pc' = "stopped"
            /\ UNCHANGED <<df, schema, exc>>
       ELSE LET loaded == load_file(uploaded_file)
            IN  IF loaded.ok
                THEN /\ df' = loaded.table
                     /\ schema' = get_schema(loaded.table)
                     /\ trace' = HeaderEvents
                     /\ pc' = "layout"
                     /\ exc' = exc
                ELSE /\ exc' = Raised("load", "ParserError", FALSE)
                     /\ trace' = HeaderEvents
                     /\ pc' = "crashed"
                     /\ UNCHANGED <<df, schema>>
    /\ UNCHANGED <<runs, uploaded_file, question, run_btn, prompt, ai_code,
                   result, explain_prompt>>

\* lines 139-151: the preview, and the values of the two input widgets
Layout ==
    /\ pc = "layout"
    /\ \E q \in Questions, b \in BOOLEAN :
          /\ question' = q
          /\ run_btn' = b
    /\ trace' = trace \o LayoutEvents(df)
    /\ pc' = "guard"
    /\ UNCHANGED <<runs, uploaded_file, df, schema, prompt, ai_code, result,
                   explain_prompt, exc>>

\* faulty variant of RunGuard: `or` in place of `and`
RunGuard_Or ==
    /\ pc = "guard"
    /\ IF run_btn \/ question # ""
       THEN /\ trace' = trace \o AnalysisEvents
            /\ prompt' = build_prompt(schema, question)
            /\ pc' = "generate"
       ELSE /\ pc' = "debug"
            /\ UNCHANGED <<trace, prompt>>
    /\ UNCHANGED <<runs, uploaded_file, df, schema, question, run_btn, ai_code,
                   result, explain_prompt, exc>>

\* lines 156-160: `if run_btn and question`
RunGuard ==
    /\ pc = "guard"
    /\ IF run_btn /\ question # ""
       THEN /\ trace' = trace \o AnalysisEvents
            /\ prompt' = build_prompt(schema, question)
            /\ pc' = "generate"
       ELSE /\ pc' = "debug"
            /\ UNCHANGED <<trace, prompt>>
    /\ UNCHANGED <<runs, uploaded_file, df, schema, question, run_btn, ai_code,
                   result, explain_prompt, exc>>

\* line 164
Generate ==
    /\ pc = "generate"
    /\ \E r \in call_bedrock(prompt, CodeResponses) :
          IF r.ok
          THEN /\ ai_code' = r.text
               /\ trace' = Append(trace, Call("generate", prompt))
               /\ pc' = "show_code"
               /\ exc' = exc
          ELSE /\ exc' = Raised("generate", r.text, FALSE)
               /\ trace' = Handler(Append(trace, Call("generate", prompt)), r.text)
               /\ pc' = "debug"
               /\ ai_code' = ai_code
    /\ UNCHANGED <<runs, uploaded_file, df, schema, question, run_btn, prompt,
                   result, explain_prompt>>

\* lines 166-167
ShowCode ==
    /\ pc = "show_code"
    /\ trace' = Append(trace, Show("code", ai_code))
    /\ pc' = "execute"
    /\ UNCHANGED <<runs, uploaded_file, df, schema, question, run_btn, prompt,
                   ai_code, result, explain_prompt, exc>>

\* what safe_execute adds to the events: the gate's decision and, when eval
\* is reached, the evaluation with the names its globals bind
ExecuteEvents(code, o) ==
    IF o.evaluated
    THEN << Event("gate", "passed", code), Event("eval", code, o.globals) >>
    ELSE << Event("gate", "rejected", code) >>

\* line 169: an Exception goes to the handler, any other BaseException
\* leaves the try statement
Execute ==
    /\ pc = "execute"
    /\ \E o \in safe_execute(ai_code, df) :
          /\ df' = o.out.df
          /\ IF o.out.kind = "value"
             THEN /\ result' = o.out.result
                  /\ trace' = trace \o ExecuteEvents(ai_code, o)
                  /\ pc' = "render"
                  /\ exc' = exc
             ELSE /\ exc' = Raised("execute", o.out.type, o.out.base)
                  /\ result' = result
                  /\ IF o.out.base
                     THEN /\ trace' = trace \o ExecuteEvents(ai_code, o)
                          /\ pc' = "uncaught"
                     ELSE /\ trace' = Handler(trace \o ExecuteEvents(ai_code, o), o.out.type)
                          /\ pc' = "debug"
    /\ UNCHANGED <<runs, uploaded_file, schema, question, run_btn, prompt,
                   ai_code, explain_prompt>>

\* faulty variant of Render: a drawing error is swallowed and the run goes on
Render_Swallow ==
    /\ pc = "render"
    /\ \E drawn \in BOOLEAN :
          IF drawn
          THEN /\ trace' = trace \o ResultEvents(result)
                              \o <<Event("viz", auto_visualize(result).widget,
                                         auto_visualize(result))>>
               /\ exc' = exc
          ELSE /\ exc' = Raised("render", "StreamlitAPIException", FALSE)
               /\ trace' = trace \o ResultEvents(result)
    /\ pc' = "explain"
    /\ UNCHANGED <<runs, uploaded_file, df, schema, question, run_btn, prompt,
                   ai_code, result, explain_prompt>>

\* lines 171-176: the result, then the element auto_visualize selects; the
\* chart or table call may raise on data it cannot draw
Render ==
    /\ pc = "render"
    /\ \E drawn \in BOOLEAN :
          IF drawn
          THEN /\ trace' = trace \o ResultEvents(result)
                              \o <<Event("viz", auto_visualize(result).widget,
                                         auto_visualize(result))>>
               /\ pc' = "explain"
               /\ exc' = exc
          ELSE /\ exc' = Raised("render", "StreamlitAPIException", FALSE)
               /\ trace' = Handler(trace \o ResultEvents(result), "StreamlitAPIException")
               /\ pc' = "debug"
    /\ UNCHANGED <<runs, uploaded_file, df, schema, question, run_btn, prompt,
                   ai_code, result, explain_prompt>>

\* lines 178-180 and explain_result, lines 109-119
Explain ==
    /\ pc = "explain"
    /\ explain_prompt' = ExplainPrompt(question, result)
    /\ \E r \in call_bedrock(explain_prompt', ExplanationResponses) :
          LET called == trace \o << Show("write", "### Explanation"),
                                    Call("explain", explain_prompt') >>
          IN  IF r.ok
              THEN /\ trace' = Append(called, Show("explanation", r.text))
                   /\ exc' = exc
              ELSE /\ exc' = Raised("explain", r.text, FALSE)
                   /\ trace' = Handler(called, r.text)
    /\ pc' = "debug"
    /\ UNCHANGED <<runs, uploaded_file, df, schema, question, run_btn, prompt,
                   ai_code, result>>

\* lines 189-190
Debug ==
    /\ pc = "debug"
    /\ trace' = Append(trace, Show("debug_prompt",
                    build_prompt(schema, IF question # "" THEN question ELSE "")))
    /\ pc' = "done"
    /\ UNCHANGED <<runs, uploaded_file, df, schema, question, run_btn, prompt,
                   ai_code, result, explain_prompt, exc>>

Ended == pc \in {"done", "stopped", "crashed", "uncaught"}

\* the next user interaction runs the script again from the top, with the
\* file the uploader then holds
Rerun ==
    /\ Ended
    /\ runs < MaxRuns
    /\ runs' = runs + 1
    /\ uploaded_file' \in Uploads
    /\ pc' = "upload"
    /\ df' = NoTable
    /\ schema' = NoSchema
    /\ question' = ""
    /\ run_btn' = FALSE
    /\ prompt' = NoPrompt
    /\ ai_code' = ""
    /\ result' = NoResult
    /\ explain_prompt' = ""
    /\ exc' = NoExc
    /\ trace' = <<>>

Next ==
    \/ UploadGuard
    \/ Layout
    \/ RunGuard
    \/ Generate
    \/ ShowCode
    \/ Execute
    \/ Render
    \/ Explain
    \/ Debug
    \/ Rerun

Spec == Init /\ [][Next]_vars

-----------------------------------------------------------------------------
(* The gate of safe_execute over many generated texts *)

\* pieces of the disallowed substrings and of ordinary expressions; a
\* disallowed substring arises where pieces meet
Fragments ==
    {"df", "df.", "o", "s.", "sy", "op", "en(", "ex", "ec", "ev", "al",
     "im", "port", "_"}

RECURSIVE FragTexts(_)
\* the concatenations of at most n fragments
FragTexts(n) ==
    IF n = 0 THEN {""}
    ELSE LET shorter == FragTexts(n - 1)
         IN  shorter \cup {t \o f : t \in shorter, f \in Fragments}

GateTexts == FragTexts(MaxFrags) \cup {Strip(raw) : raw \in CodeResponses}

SalesFile == CHOOSE f \in Files : f.name = "sales.csv"

AskedQuestion == "what is the total of column revenue"

\* the events of a run up to the display of the generated text
EventsBeforeExecute(d, q, code) ==
    HeaderEvents \o LayoutEvents(d) \o AnalysisEvents
        \o << Call("generate", build_prompt(get_schema(d), q)), Show("code", code) >>

\* a run that has received and displayed the remote model's text
InitGate ==
    /\ pc = "execute"
    /\ runs = 1
    /\ uploaded_file = SalesFile
    /\ df = SalesTable
    /\ schema = get_schema(SalesTable)
    /\ question = AskedQuestion
    /\ run_btn = TRUE
    /\ prompt = build_prompt(schema, question)
    /\ ai_code \in GateTexts
    /\ result = NoResult
    /\ explain_prompt = ""
    /\ exc = NoExc
    /\ trace = EventsBeforeExecute(df, question, ai_code)

NextGate == Execute

SpecGate == InitGate /\ [][NextGate]_vars

-----------------------------------------------------------------------------
(* explain_result over long result strings *)

Twice(s) == s \o s

\* 2560 characters of period 10
LongText ==
    Twice(Twice(Twice(Twice(Twice(Twice(Twice(Twice("abcdefghij"))))))))

Offsets == 0..2

\* the strings a text cell may hold
ResultStrings ==
    { SubSeq(LongText, off + 1, off + n) : n \in 0..MaxResultLen, off \in Offsets }

\* a one-cell table whose cell holds the text s
NotesTable(s) ==
    [columns |-> <<"region">>,
     dtypes  |-> [region |-> "object"],
     rows    |-> << [region |-> s] >>]

NotesFile(s) ==
    [name |-> "notes.csv", format |-> "csv", table |-> NotesTable(s), readable |-> TRUE]

NotesCode == "df['region'].sum()"

\* a run that has evaluated the text cell and rendered it
InitExplain ==
    /\ pc = "explain"
    /\ runs = 1
    /\ \E s \in ResultStrings :
          /\ uploaded_file = NotesFile(s)
          /\ df = NotesTable(s)
          /\ result = StrResult(s)
    /\ schema = get_schema(df)
    /\ question = AskedQuestion
    /\ run_btn = TRUE
    /\ prompt = build_prompt(schema, question)
    /\ ai_code = NotesCode
    /\ explain_prompt = ""
    /\ exc = NoExc
    /\ trace = EventsBeforeExecute(df, question, ai_code)
                 \o << Event("gate", "passed", ai_code),
                       Event("eval", ai_code, EvalGlobals) >>
                 \o ResultEvents(result)
                 \o << Event("viz", auto_visualize(result).widget, auto_visualize(result)) >>

NextExplain == Explain

SpecExplain == InitExplain /\ [][NextExplain]_vars

-----------------------------------------------------------------------------
(* Observations on the events of a run *)

Indexes == 1..Len(trace)

CallEvents == SelectSeq(trace, LAMBDA e : e.ev = "call")

\* the kinds of the remote invocations made so far, in order
CallKinds == [i \in 1..Len(CallEvents) |-> CallEvents[i].what]

Count(ev, what) ==
    Cardinality({i \in Indexes : trace[i].ev = ev /\ trace[i].what = what})

CountEv(ev) == Cardinality({i \in Indexes : trace[i].ev = ev})

Shown(what) == Count("show", what) > 0

\* positions of the events of one kind
At(ev, what) == {i \in Indexes : trace[i].ev = ev /\ trace[i].what = what}

\* the run guard let the analysis start
Started ==
    \E i \in Indexes :
        trace[i].ev = "show" /\ trace[i].what = "subheader" /\ trace[i].data = "Analysis"

AnalysisSteps == {"generate", "execute", "render", "explain"}

\* the generic failure output: the fixed message, directly followed by the
\* traceback text
ErrorShown ==
    \E i \in Indexes :
        /\ i < Len(trace)
        /\ trace[i].ev = "show" /\ trace[i].what = "error"
        /\ trace[i].data = "Something went wrong."
        /\ trace[i + 1].ev = "show" /\ trace[i + 1].what = "text"

ExplanationShown == Shown("explanation")

-----------------------------------------------------------------------------
(* Claims *)

\* C1: a request makes at most two remote invocations, generation first and
\* explanation second; exactly two when no step raises, exactly one when the
\* generation call or safe_execute raises; the explanation call happens only
\* after the expression was generated and evaluated without error.
C1_InvocationCount ==
    /\ CallKinds \in { <<>>, <<"generate">>, <<"generate", "explain">> }
    /\ (pc = "done" /\ Started /\ exc = NoExc)
          => CallKinds = <<"generate", "explain">>
    /\ (Ended /\ exc.step \in {"generate", "execute"})
          => CallKinds = <<"generate">>
    /\ (\E i \in 1..Len(CallKinds) : CallKinds[i] = "explain")
          => /\ CountEv("eval") = 1
             /\ result # NoResult
             /\ exc.step \notin {"generate", "execute"}

C1_Witness ==
    /\ pc = "done"
    /\ exc = NoExc
    /\ CallKinds = <<"generate", "explain">>

\* t holds one of the seven disallowed substrings at some position k
HasDisallowed(t) ==
    \E b \in {"import", "os.", "open(", "exec", "eval", "__", "sys."} :
        \E k \in 0..Len(t) :
            /\ k + Len(b) <= Len(t)
            /\ \A j \in 1..Len(b) : SubSeq(t, k + j, k + j) = SubSeq(b, j, j)

\* C2: safe_execute rejects exactly the texts that contain one of the seven
\* disallowed substrings at some position; a rejected text never reaches the
\* evaluation, and every other text is evaluated with only df bound.
C2_GateRejectsDisallowed ==
    pc # "execute" =>
        IF HasDisallowed(ai_code)
        THEN /\ Count("gate", "rejected") = 1
             /\ CountEv("eval") = 0
             /\ exc = Raised("execute", "ValueError: Unsafe code detected", FALSE)
             /\ result = NoResult
        ELSE /\ Count("gate", "rejected") = 0
             /\ Count("gate", "passed") = 1
             /\ \E i \in Indexes :
                   /\ trace[i].ev = "eval"
                   /\ trace[i].what = ai_code
                   /\ trace[i].data = {"df"}
             /\ exc.type # "ValueError: Unsafe code detected"

C2_Witness ==
    /\ ai_code = "df.columns.__len__()"
    /\ pc = "debug"
    /\ Count("gate", "rejected") = 1

\* C3 as stated: the text getattr(df,'__c'+'lass__') passes the gate and is
\* evaluated.
C3_Original ==
    (ai_code = "getattr(df,'__c'+'lass__')" /\ pc # "execute")
        => /\ Count("gate", "passed") = 1
           /\ CountEv("eval") = 1
           /\ exc.type # "ValueError: Unsafe code detected"

\* C3 amended: getattr(df,'__c'+'lass__') is rejected, because its literal
\* '__c' contains __; the text getattr(df,'_'+'_class_'+'_'), which splits
\* every disallowed substring, passes the gate and is evaluated.
C3_BypassSplit ==
    pc # "execute" =>
        /\ ai_code = "getattr(df,'__c'+'lass__')"
              => /\ Count("gate", "rejected") = 1
                 /\ CountEv("eval") = 0
                 /\ exc.type = "ValueError: Unsafe code detected"
        /\ ai_code = "getattr(df,'_'+'_class_'+'_')"
              => /\ Count("gate", "passed") = 1
                 /\ CountEv("eval") = 1
                 /\ exc.type # "ValueError: Unsafe code detected"

C3_Witness ==
    /\ ai_code = "getattr(df,'_'+'_class_'+'_')"
    /\ pc = "render"
    /\ CountEv("eval") = 1

\* no remote call, gate decision or evaluation is made twice in a run
NoRetry ==
    /\ Count("call", "generate") <= 1
    /\ Count("call", "explain") <= 1
    /\ CountEv("gate") <= 1
    /\ CountEv("eval") <= 1

\* C4 as stated: every failure after the run guard is caught by the handler,
\* which shows the generic message and the traceback; the request ends with
\* the explanation shown or with the error shown, never with an uncaught
\* exception, and no step is retried.
C4_Original ==
    /\ exc.step \in AnalysisSteps => (ErrorShown /\ pc \in {"debug", "done"})
    /\ (Ended /\ Started)
          => (pc = "done" /\ (ExplanationShown \/ ErrorShown))
    /\ NoRetry

\* C4 amended: every failure after the run guard that raises an Exception is
\* caught by the handler, which shows the same generic message and the
\* traceback; the request ends with the explanation shown, with the error
\* shown, or, only when a step raises a BaseException that is not an
\* Exception, with that exception uncaught; no step is retried.
C4_ExceptionsHandled ==
    /\ (exc.step \in AnalysisSteps /\ ~exc.base)
          => /\ ErrorShown
             /\ Count("show", "error") = 1
             /\ ~ExplanationShown
             /\ pc \in {"debug", "done"}
    /\ (exc.step \in AnalysisSteps /\ exc.base)
          => /\ pc = "uncaught"
             /\ ~Shown("error")
             /\ ~ExplanationShown
    /\ (Ended /\ Started)
          => \/ pc = "done" /\ exc = NoExc /\ ExplanationShown /\ ~Shown("error")
             \/ pc = "done" /\ exc.step \in AnalysisSteps /\ ErrorShown
             \/ pc = "uncaught" /\ exc.base
    /\ Shown("error") => ErrorShown
    /\ NoRetry

C4_Witness ==
    /\ pc = "done"
    /\ exc = Raised("execute", "ValueError: Unsafe code detected", FALSE)
    /\ ErrorShown

\* C5 as stated: when the explanation call fails after a successful
\* evaluation, the result and its visualization are not displayed in the
\* final state, only the generic failure output is.
C5_Original ==
    (pc = "done" /\ exc.step = "explain")
        => /\ ErrorShown
           /\ ~Shown("result")
           /\ CountEv("viz") = 0

\* C5 amended: when the explanation call fails after a successful
\* evaluation, the result and its visualization stay displayed, followed by
\* the generic failure output; only the explanation is missing.
C5_ResultStaysShown ==
    exc.step = "explain"
        => /\ ErrorShown
           /\ ~ExplanationShown
           /\ \E i, j, k \in Indexes :
                 /\ i < j /\ j < k
                 /\ trace[i].ev = "show" /\ trace[i].what = "result"
                 /\ trace[i].data = result
                 /\ trace[j].ev = "viz"
                 /\ trace[k].ev = "show" /\ trace[k].what = "error"

C5_Witness ==
    /\ pc = "done"
    /\ exc.step = "explain"
    /\ Shown("result")

\* C6: auto_visualize picks one element per result, by the result's shape
\* only: a Series gives a bar chart of the series, a DataFrame of exactly
\* two columns a bar chart indexed by its first column, a DataFrame of any
\* other column count the raw table, anything else plain text; the sum of
\* revenue [10, 20, 30] is 60 and is shown as plain text.
C6_VisualizePath ==
    /\ CountEv("viz") <= 1
    /\ pc = "explain" => CountEv("viz") = 1
    /\ \A i \in Indexes : trace[i].ev = "viz" =>
          LET v == trace[i].data
              n == Len(result.table.columns)
          IN  /\ trace[i].what = v.widget
              /\ result.kind = "Series"
                    => v.widget = "bar_chart" /\ v.index = "" /\ v.data = result.table
              /\ (result.kind = "DataFrame" /\ n = 2)
                    => /\ v.widget = "bar_chart"
                       /\ v.index = result.table.columns[1]
                       /\ v.data = result.table
              /\ (result.kind = "DataFrame" /\ n # 2)
                    => v.widget = "dataframe" /\ v.data = result.table
              /\ result.kind \notin {"Series", "DataFrame"}
                    => v.widget = "write"
    /\ (ai_code = "df['revenue'].sum()" /\ uploaded_file.table = SalesTable
          /\ pc \in {"render", "explain"})
          => result.kind = "int" /\ result.value = 60

C6_Witness ==
    /\ result.kind = "DataFrame"
    /\ Len(result.table.columns) = 3
    /\ \E i \in Indexes : trace[i].ev = "viz" /\ trace[i].what = "dataframe"

\* C7: the explanation prompt embeds exactly the first min(1000, len) 
\* characters of the result's string form, in order, and nothing beyond them.
C7_Truncation ==
    explain_prompt # "" =>
        LET s    == Str(result)
            n    == IF Len(s) < 1000 THEN Len(s) ELSE 1000
            base == Len(ExplainHead) + Len(question) + Len(ExplainMid)
        IN  /\ Len(explain_prompt) = base + n + Len(ExplainTail)
            /\ SubSeq(explain_prompt, 1, base) = ExplainHead \o question \o ExplainMid
            /\ \A i \in 1..n :
                  SubSeq(explain_prompt, base + i, base + i) = SubSeq(s, i, i)
            /\ SubSeq(explain_prompt, base + n + 1, Len(explain_prompt)) = ExplainTail

C7_Witness ==
    /\ explain_prompt # ""
    /\ Len(Str(result)) > 1000
    /\ Count("call", "explain") = 1

\* C8: evaluating an expression that passes the gate leaves the dataset
\* unchanged: the dataset is the loaded one and the schema is the schema of
\* the dataset, throughout the run.
C8_DatasetUnchanged ==
    pc \notin {"upload", "stopped", "crashed"}
        => /\ df = uploaded_file.table
           /\ schema = get_schema(df)

\* the number of the step an event belongs to; 0 for events outside the steps
StepOf(e) ==
    CASE e.ev = "call" /\ e.what = "generate" -> 1
      [] e.ev = "show" /\ e.what = "code" -> 2
      [] e.ev \in {"gate", "eval"} -> 3
      [] e.ev = "show" /\ e.what \in {"success", "result"} -> 4
      [] e.ev = "viz" -> 4
      [] e.ev = "call" /\ e.what = "explain" -> 5
      [] e.ev = "show" /\ e.what = "explanation" -> 6
      [] OTHER -> 0

StepNumber(step) ==
    CASE step = "generate" -> 1
      [] step = "execute" -> 3
      [] step = "render" -> 4
      [] step = "explain" -> 5
      [] OTHER -> 6

\* C9: the steps of a request happen in the fixed order generation call,
\* display of the expression, gate and evaluation, result display and
\* rendering, explanation call, explanation display; each at most once and
\* only after every earlier step completed without error.
C9_StepOrder ==
    /\ \A i, j \in Indexes :
          (i < j /\ StepOf(trace[i]) > 0 /\ StepOf(trace[j]) > 0)
              => StepOf(trace[i]) <= StepOf(trace[j])
    /\ \A j \in Indexes : \A k \in 1..(StepOf(trace[j]) - 1) :
          \E i \in 1..(j - 1) : StepOf(trace[i]) = k
    /\ NoRetry
    /\ Count("show", "code") <= 1 /\ Count("show", "result") <= 1
    /\ CountEv("viz") <= 1 /\ Count("show", "explanation") <= 1
    /\ \A j \in Indexes : StepOf(trace[j]) <= StepNumber(exc.step)
    /\ \A i, j \in Indexes :
          (trace[i].ev = "show" /\ trace[i].what = "error" /\ StepOf(trace[j]) > 0)
              => j < i
    /\ Shown("result") => (Count("gate", "passed") = 1 /\ exc.step # "execute")

C9_Witness ==
    /\ pc = "done"
    /\ \A k \in 1..6 : \E i \in Indexes : StepOf(trace[i]) = k

\* C10: no remote invocation and no evaluation happens unless a file is
\* loaded, the run button was pressed and the question is non-empty; without
\* a file the script stops before the analysis code, and with an empty
\* question or an unpressed button the analysis is skipped while the debug
\* prompt is still built from the schema and the question.
C10_GuardedAnalysis ==
    /\ (CountEv("call") + CountEv("gate") + CountEv("eval") > 0)
          => /\ uploaded_file # NoFile
             /\ load_file(uploaded_file).ok
             /\ run_btn
             /\ question # ""
    /\ uploaded_file = NoFile => pc \in {"upload", "stopped"}
    /\ pc = "stopped" => ~Shown("debug_prompt") /\ ~Started
    /\ (pc = "done" /\ ~(run_btn /\ question # ""))
          => /\ ~Started
             /\ trace[Len(trace)] = Show("debug_prompt",
                    build_prompt(get_schema(uploaded_file.table), question))

C10_Witness ==
    /\ pc = "done"
    /\ run_btn
    /\ question = ""
    /\ Shown("debug_prompt")

====
